---- MODULE Spec2Model ----
(***************************************************************************)
(* GltfImageCacheResource (Source/Scene/GltfImageCacheResource.js): one    *)
(* cache entry that loads a glTF image either from a buffer view of the    *)
(* resource cache or from a uri, with cooperative cancellation through     *)
(* unload().                                                               *)
(*                                                                         *)
(* The object is the record imageCacheResource (one field per this._x).    *)
(* Every load() call starts a promise chain; attempts[i] is the position   *)
(* of the chain started by the i-th call together with the locals its      *)
(* closures captured.  The collaborators (buffer view cache resource,      *)
(* decoders, fetch) settle at arbitrary later moments: one action each.    *)
(***************************************************************************)
EXTENDS Integers, Sequences, FiniteSets, TLC

\* ---------------------------------------------------------------- bounds
\* load() calls made on the entry (each one starts a promise chain)
MaxLoads == 2

\* ------------------------------------------------------------ JS values
\* undefined; every optional value of the model is a non-empty tuple
Undefined == <<>>

defined(x) == x # Undefined

\* CacheResourceState
UNLOADED == "UNLOADED"
LOADING == "LOADING"
READY == "READY"
FAILED == "FAILED"

CacheResourceState == {UNLOADED, LOADING, READY, FAILED}

\* ------------------------------------------------------------ inputs
\* image.bufferView of the image record
BufferViewIds == {<<"bufferView", 0>>}

\* image.uri of the image record, as character sequences
PngUri == <<"a", ".", "p", "n", "g">>

KtxUri == <<"a", ".", "K", "t", "x">>

CrnUri == <<"a", ".", "c", "r", "n">>

Uris == {PngUri, KtxUri, CrnUri}

\* payloads a decoder resolves with
Images == {<<"image", "A">>, <<"image", "B">>}

\* contents of the buffer view (bufferViewCacheResource.typedArray)
PngBytes == <<137, 80, 78, 71>>

KtxBytes == <<171, 75, 84, 88>>

CrnBytes == <<72, 120>>

WebpBytes == <<82, 73, 70, 70, 0, 0, 0, 0, 87, 69, 66, 80>>

RiffOnlyBytes == <<82, 73, 70, 70, 0, 0, 0, 0>>

BadBytes == <<0, 0>>

ShortBytes == <<137>>

TypedArrays == {PngBytes, KtxBytes, CrnBytes, WebpBytes, RiffOnlyBytes, BadBytes, ShortBytes}

\* the gltf JSON handed to the constructor
TheGltf == <<"gltf">>

\* ------------------------------------------------------------ when.defer
\* when.defer(): pending until the first resolve/reject; later calls are
\* no-ops.  calls counts the resolve and reject calls made on it.
defer == [status |-> "pending", value |-> Undefined, calls |-> 0]

resolve(d, v) ==
    IF d.status = "pending"
    THEN [status |-> "resolved", value |-> v, calls |-> d.calls + 1]
    ELSE [d EXCEPT !.calls = d.calls + 1]

reject(d, e) ==
    IF d.status = "pending"
    THEN [status |-> "rejected", value |-> e, calls |-> d.calls + 1]
    ELSE [d EXCEPT !.calls = d.calls + 1]

\* the value promise.resolve(imageCacheResource) passes: the entry itself
Self == <<"imageCacheResource">>

\* CacheResource.getError(error, errorMessage)
getError(error, errorMessage) == <<"RuntimeError", errorMessage, error>>

\* ------------------------------------------------------------ ResourceCache
\* loads: loadBufferView calls so far; the k-th call hands out the
\* acquisition <<k>>.  unloads[k]: resourceCache.unload calls made with it.
\* requests[k]: bufferViewId and keepResident of the k-th loadBufferView call.
NewResourceCache ==
    [loads |-> 0, unloads |-> [k \in 1..MaxLoads |-> 0], requests |-> <<>>]

Tokens == 1..MaxLoads

loadBufferView(cache, options) ==
    [cache EXCEPT !.loads = cache.loads + 1, !.requests = Append(cache.requests, options)]

cacheUnload(cache, resource) ==
    [cache EXCEPT !.unloads[resource[1]] = cache.unloads[resource[1]] + 1]

\* ------------------------------------------------------------ constructor
\* An image record of gltf.images: bufferView, uri and the four entries of
\* extras.compressedImage3DTiles (each Undefined or [bufferView, uri]).
NoExtras == [crunch |-> Undefined, s3tc |-> Undefined, pvrtc1 |-> Undefined, etc1 |-> Undefined]

\* options.supportedImageFormats
NoFormats == [webp |-> FALSE, s3tc |-> FALSE, pvrtc |-> FALSE, etc1 |-> FALSE]

\* the source of a selected compressed variant overrides bufferViewId or uri
selectVariant(src, variant) ==
    IF defined(variant.bufferView)
    THEN [src EXCEPT !.bufferViewId = variant.bufferView]
    ELSE [src EXCEPT !.uri = variant.uri]

\* the selection with s3tc tried before crunch
selectSource_s3tcFirst(image, supported) ==
    LET base == [bufferViewId |-> image.bufferView, uri |-> image.uri]
        ext == image.extras
    IN  IF ~defined(ext) THEN base
        ELSE IF supported.s3tc /\ defined(ext.s3tc) THEN selectVariant(base, ext.s3tc)
        ELSE IF supported.s3tc /\ defined(ext.crunch) THEN selectVariant(base, ext.crunch)
        ELSE IF supported.pvrtc /\ defined(ext.pvrtc1) THEN selectVariant(base, ext.pvrtc1)
        ELSE IF supported.etc1 /\ defined(ext.etc1) THEN selectVariant(base, ext.etc1)
        ELSE base

\* lines 67-105: the source the entry is bound to
selectSource(image, supported) ==
    LET base == [bufferViewId |-> image.bufferView, uri |-> image.uri]
        ext == image.extras
    IN  IF ~defined(ext) THEN base
        ELSE IF supported.s3tc /\ defined(ext.crunch) THEN selectVariant(base, ext.crunch)
        ELSE IF supported.s3tc /\ defined(ext.s3tc) THEN selectVariant(base, ext.s3tc)
        ELSE IF supported.pvrtc /\ defined(ext.pvrtc1) THEN selectVariant(base, ext.pvrtc1)
        ELSE IF supported.etc1 /\ defined(ext.etc1) THEN selectVariant(base, ext.etc1)
        ELSE base

\* the object the constructor builds
GltfImageCacheResource(image, supported) ==
    LET src == selectSource(image, supported)
    IN  [resourceCache |-> NewResourceCache,
         gltf |-> TheGltf,
         bufferViewId |-> src.bufferViewId,
         uri |-> src.uri,
         bufferViewCacheResource |-> Undefined,
         image |-> Undefined,
         state |-> UNLOADED,
         promise |-> defer]

\* image records the entry is constructed for
ImageRecords ==
    { [bufferView |-> b, uri |-> u, extras |-> Undefined] :
        b \in BufferViewIds \cup {Undefined}, u \in Uris \cup {Undefined} }

\* ------------------------------------------------------------ unload
\* unload that releases the buffer view but keeps the reference to it
unload_keepsBufferView(r) ==
    LET cache == IF defined(r.bufferViewCacheResource)
                 THEN cacheUnload(r.resourceCache, r.bufferViewCacheResource)
                 ELSE r.resourceCache
    IN  [r EXCEPT !.resourceCache = cache,
                  !.uri = Undefined,
                  !.image = Undefined,
                  !.gltf = Undefined]

\* unload that does not clear the decoded image
unload_keepsImage(r) ==
    LET cache == IF defined(r.bufferViewCacheResource)
                 THEN cacheUnload(r.resourceCache, r.bufferViewCacheResource)
                 ELSE r.resourceCache
    IN  [r EXCEPT !.resourceCache = cache,
                  !.bufferViewCacheResource = Undefined,
                  !.uri = Undefined,
                  !.gltf = Undefined]

\* unload that does not clear the stored uri
unload_keepsUri(r) ==
    LET cache == IF defined(r.bufferViewCacheResource)
                 THEN cacheUnload(r.resourceCache, r.bufferViewCacheResource)
                 ELSE r.resourceCache
    IN  [r EXCEPT !.resourceCache = cache,
                  !.bufferViewCacheResource = Undefined,
                  !.image = Undefined,
                  !.gltf = Undefined]

\* lines 307-318
unload(r) ==
    LET cache == IF defined(r.bufferViewCacheResource)
                 THEN cacheUnload(r.resourceCache, r.bufferViewCacheResource)
                 ELSE r.resourceCache
    IN  [r EXCEPT !.resourceCache = cache,
                  !.bufferViewCacheResource = Undefined,
                  !.uri = Undefined,
                  !.image = Undefined,
                  !.gltf = Undefined]

\* prototype.unload that rejects completion as cancelled
prototypeUnload_rejects(r) ==
    [unload(r) EXCEPT !.state = UNLOADED,
                      !.promise = reject(r.promise, <<"cancelled">>)]

\* lines 323-326
prototypeUnload(r) == [unload(r) EXCEPT !.state = UNLOADED]

\* handleError that marks FAILED but never rejects the promise
handleError_noReject(r, error, errorMessage) == [unload(r) EXCEPT !.state = FAILED]

\* handleError that skips the cleanup
handleError_noUnload(r, error, errorMessage) ==
    [r EXCEPT !.state = FAILED,
              !.promise = reject(r.promise, getError(error, errorMessage))]

\* lines 173-179
handleError(r, error, errorMessage) ==
    LET u == unload(r)
    IN  [u EXCEPT !.state = FAILED,
                  !.promise = reject(u.promise, getError(error, errorMessage))]

\* ------------------------------------------------------------ sniffing
\* arr[i] === b, false when arr[i] is undefined (index past the end)
byteIs(arr, i, b) == i < Len(arr) /\ arr[i + 1] = b

\* typedArray.subarray(begin, end): clamped to the array
subarray(typedArray, begin, end) ==
    SubSeq(typedArray, begin + 1, IF end < Len(typedArray) THEN end ELSE Len(typedArray))

\* the outcome of a throw
Throw == "throw"

\* the sniffing with the WebP test stopping at "RIFF"
getMimeTypeFromTypedArray_riffOnly(typedArray) ==
    LET header == subarray(typedArray, 0, 2)
        webpHeaderRIFFChars == subarray(typedArray, 0, 4)
    IN  IF byteIs(header, 0, 66) /\ byteIs(header, 1, 73) THEN "image/bmp"
        ELSE IF byteIs(header, 0, 71) /\ byteIs(header, 1, 73) THEN "image/gif"
        ELSE IF byteIs(header, 0, 255) /\ byteIs(header, 1, 216) THEN "image/jpeg"
        ELSE IF byteIs(header, 0, 137) /\ byteIs(header, 1, 80) THEN "image/png"
        ELSE IF byteIs(header, 0, 171) /\ byteIs(header, 1, 75) THEN "image/ktx"
        ELSE IF byteIs(header, 0, 72) /\ byteIs(header, 1, 120) THEN "image/crn"
        ELSE IF byteIs(header, 0, 115) /\ byteIs(header, 1, 66) THEN "image/basis"
        ELSE IF /\ byteIs(webpHeaderRIFFChars, 0, 82)
                /\ byteIs(webpHeaderRIFFChars, 1, 73)
                /\ byteIs(webpHeaderRIFFChars, 2, 70)
                /\ byteIs(webpHeaderRIFFChars, 3, 70)
             THEN "image/webp"
        ELSE Throw

\* lines 239-272
getMimeTypeFromTypedArray(typedArray) ==
    LET header == subarray(typedArray, 0, 2)
        webpHeaderRIFFChars == subarray(typedArray, 0, 4)
        webpHeaderWEBPChars == subarray(typedArray, 8, 12)
    IN  IF byteIs(header, 0, 66) /\ byteIs(header, 1, 73) THEN "image/bmp"
        ELSE IF byteIs(header, 0, 71) /\ byteIs(header, 1, 73) THEN "image/gif"
        ELSE IF byteIs(header, 0, 255) /\ byteIs(header, 1, 216) THEN "image/jpeg"
        ELSE IF byteIs(header, 0, 137) /\ byteIs(header, 1, 80) THEN "image/png"
        ELSE IF byteIs(header, 0, 171) /\ byteIs(header, 1, 75) THEN "image/ktx"
        ELSE IF byteIs(header, 0, 72) /\ byteIs(header, 1, 120) THEN "image/crn"
        ELSE IF byteIs(header, 0, 115) /\ byteIs(header, 1, 66) THEN "image/basis"
        ELSE IF /\ byteIs(webpHeaderRIFFChars, 0, 82)
                /\ byteIs(webpHeaderRIFFChars, 1, 73)
                /\ byteIs(webpHeaderRIFFChars, 2, 70)
                /\ byteIs(webpHeaderRIFFChars, 3, 70)
                /\ byteIs(webpHeaderWEBPChars, 0, 87)
                /\ byteIs(webpHeaderWEBPChars, 1, 69)
                /\ byteIs(webpHeaderWEBPChars, 2, 66)
                /\ byteIs(webpHeaderWEBPChars, 3, 80)
             THEN "image/webp"
        ELSE Throw

\* a decoder call: which decoder, on what (bytes or url), with which options
decoderCall(decoder, arg, format, flipY) ==
    [decoder |-> decoder, arg |-> arg, format |-> format, flipY |-> flipY]

\* no decoder was called: the sniffing threw
ThrowCall == decoderCall(Throw, Undefined, Undefined, Undefined)

\* lines 274-289: the decoder call made, or ThrowCall
loadImageFromBufferTypedArray(typedArray) ==
    LET mimeType == getMimeTypeFromTypedArray(typedArray)
    IN  IF mimeType = Throw THEN ThrowCall
        ELSE IF mimeType = "image/ktx"
             THEN decoderCall("loadKTX", typedArray, Undefined, Undefined)
        ELSE IF mimeType = "image/crn"
             THEN decoderCall("loadCRN", typedArray, Undefined, Undefined)
        ELSE decoderCall("loadImageFromTypedArray", typedArray, <<mimeType>>, <<FALSE>>)

\* ------------------------------------------------------------ uri dispatch
UpperCase == <<"A", "B", "C", "D", "E", "F", "G", "H", "I", "J", "K", "L", "M",
               "N", "O", "P", "Q", "R", "S", "T", "U", "V", "W", "X", "Y", "Z">>

LowerCase == <<"a", "b", "c", "d", "e", "f", "g", "h", "i", "j", "k", "l", "m",
               "n", "o", "p", "q", "r", "s", "t", "u", "v", "w", "x", "y", "z">>

toLower(c) ==
    IF \E k \in DOMAIN UpperCase : UpperCase[k] = c
    THEN LowerCase[CHOOSE k \in DOMAIN UpperCase : UpperCase[k] = c]
    ELSE c

lowered(s) == [k \in DOMAIN s |-> toLower(s[k])]

startsWith(s, prefix) == Len(s) >= Len(prefix) /\ SubSeq(s, 1, Len(prefix)) = prefix

endsWith(s, suffix) ==
    Len(s) >= Len(suffix) /\ SubSeq(s, Len(s) - Len(suffix) + 1, Len(s)) = suffix

DataImage == <<"d", "a", "t", "a", ":", "i", "m", "a", "g", "e", "/">>

\* line 291: /(^data:image\/ktx)|(\.ktx$)/i
ktxRegex(url) ==
    \/ startsWith(lowered(url), DataImage \o <<"k", "t", "x">>)
    \/ endsWith(lowered(url), <<".", "k", "t", "x">>)

\* line 292: /(^data:image\/crn)|(\.crn$)/i
crnRegex(url) ==
    \/ startsWith(lowered(url), DataImage \o <<"c", "r", "n">>)
    \/ endsWith(lowered(url), <<".", "c", "r", "n">>)

\* the url of options.baseResource
BaseUrl == <<"m", "/", "g", ".", "g", "l", "t", "f">>

\* baseResource.getDerivedResource({url: uri}).url: a data uri is kept, any
\* other uri is resolved against the directory of the base url, and without
\* a uri the derived resource keeps the base url
getDerivedResource(uri) ==
    IF ~defined(uri) THEN BaseUrl
    ELSE IF startsWith(lowered(uri), <<"d", "a", "t", "a", ":">>) THEN uri
    ELSE <<"m", "/">> \o uri

\* the dispatch with the crn pattern tested first
loadImageFromUri_crnFirst(url) ==
    IF crnRegex(url) THEN decoderCall("loadCRN", url, Undefined, Undefined)
    ELSE IF ktxRegex(url) THEN decoderCall("loadKTX", url, Undefined, Undefined)
    ELSE decoderCall("fetchImage", url, Undefined, Undefined)

\* lines 294-305: the decoder call made
loadImageFromUri(url) ==
    IF ktxRegex(url) THEN decoderCall("loadKTX", url, Undefined, Undefined)
    ELSE IF crnRegex(url) THEN decoderCall("loadCRN", url, Undefined, Undefined)
    ELSE decoderCall("fetchImage", url, Undefined, Undefined)

\* ------------------------------------------------------------ load
\* errors a collaborator rejects with
Errors == {<<"error", "E">>}

\* RuntimeError thrown by getMimeTypeFromTypedArray
HeaderError == <<"RuntimeError", "Image data does not have valid header">>

EmbeddedMessage == <<"Failed to load embedded image">>

\* the message without the uri
uriMessage_noUri(uri) == <<"Failed to load image:", Undefined>>

\* "Failed to load image:" + uri
uriMessage(uri) == <<"Failed to load image:", uri>>

\* the acquisition made with keepResident true
loadFromBufferView_keepResident(r) ==
    LET cache == loadBufferView(r.resourceCache,
                     [bufferViewId |-> r.bufferViewId, keepResident |-> TRUE])
    IN  [r EXCEPT !.resourceCache = cache,
                  !.bufferViewCacheResource = <<cache.loads>>,
                  !.state = LOADING]

\* lines 181-191: the synchronous part of loadFromBufferView
loadFromBufferView(r) ==
    LET cache == loadBufferView(r.resourceCache,
                     [bufferViewId |-> r.bufferViewId, keepResident |-> FALSE])
    IN  [r EXCEPT !.resourceCache = cache,
                  !.bufferViewCacheResource = <<cache.loads>>,
                  !.state = LOADING]

\* lines 216-223: the synchronous part of loadFromUri
loadFromUri(r) == [r EXCEPT !.state = LOADING]

\* lines 165-171
load(r) == IF defined(r.bufferViewId) THEN loadFromBufferView(r) ELSE loadFromUri(r)

\* lines 194-199 and 211-213: the continuation of bufferViewCacheResource.promise.
\* A throw of loadImageFromBufferTypedArray rejects the chain: handleError.
bufferViewThen(r, typedArray) ==
    IF r.state = UNLOADED
    THEN [r |-> unload(r), next |-> "done", call |-> ThrowCall]
    ELSE LET call == loadImageFromBufferTypedArray(typedArray)
         IN  IF call = ThrowCall
             THEN [r |-> handleError(r, HeaderError, EmbeddedMessage),
                   next |-> "done", call |-> ThrowCall]
             ELSE [r |-> r, next |-> "decode", call |-> call]

\* decodeThen without the UNLOADED check
decodeThen_noCheck(r, image) ==
    [unload(r) EXCEPT !.image = image,
                      !.state = READY,
                      !.promise = resolve(r.promise, Self)]

\* decodeThen that publishes without releasing the buffer view
decodeThen_noRelease(r, image) ==
    IF r.state = UNLOADED
    THEN unload(r)
    ELSE [r EXCEPT !.image = image,
                   !.state = READY,
                   !.promise = resolve(r.promise, Self)]

\* lines 200-209: the continuation of the decoder's promise
decodeThen(r, image) ==
    IF r.state = UNLOADED
    THEN unload(r)
    ELSE [unload(r) EXCEPT !.image = image,
                           !.state = READY,
                           !.promise = resolve(r.promise, Self)]

\* lines 224-233: the continuation of loadImageFromUri
uriThen(r, image) ==
    IF r.state = UNLOADED
    THEN unload(r)
    ELSE [unload(r) EXCEPT !.image = image,
                           !.state = READY,
                           !.promise = resolve(r.promise, Self)]

\* ------------------------------------------------------------ state
VARIABLES
    imageCacheResource,  \* the fields of the GltfImageCacheResource
    attempts,            \* per load() call: position of its promise chain and its closure
    decodeLog,           \* decoder calls made so far: <<attempt, call>>
    loadCalls,           \* load() calls made so far
    lastOp               \* the step taken last: [op, attempt]

vars == <<imageCacheResource, attempts, decodeLog, loadCalls, lastOp>>

Attempts == 1..MaxLoads

NoAttempt ==
    [phase |-> "none", bufferViewCacheResource |-> Undefined, uri |-> Undefined,
     cancelled |-> FALSE]

Pending == {"bufferView", "decode", "fetch"}

Init ==
    /\ \E image \in ImageRecords : imageCacheResource = GltfImageCacheResource(image, NoFormats)
    /\ attempts = [i \in Attempts |-> NoAttempt]
    /\ decodeLog = <<>>
    /\ loadCalls = 0
    /\ lastOp = [op |-> "new", attempt |-> 0]

\* load(): called on an entry that is UNLOADED (a call while LOADING, READY or
\* FAILED is a caller error)
Load ==
    /\ loadCalls < MaxLoads
    /\ imageCacheResource.state = UNLOADED
    /\ LET n == loadCalls + 1
           r == imageCacheResource
           after == load(r)
       IN  /\ imageCacheResource' = after
           /\ loadCalls' = n
           /\ lastOp' = [op |-> "load", attempt |-> n]
           /\ IF defined(r.bufferViewId)
              THEN /\ attempts' = [attempts EXCEPT ![n] =
                          [phase |-> "bufferView",
                           bufferViewCacheResource |-> after.bufferViewCacheResource,
                           uri |-> Undefined, cancelled |-> FALSE]]
                   /\ decodeLog' = decodeLog
              ELSE /\ attempts' = [attempts EXCEPT ![n] =
                          [phase |-> "fetch", bufferViewCacheResource |-> Undefined,
                           uri |-> r.uri, cancelled |-> FALSE]]
                   /\ decodeLog' = Append(decodeLog, <<n, loadImageFromUri(getDerivedResource(r.uri))>>)

\* unload(): allowed in every state
Unload ==
    /\ imageCacheResource' = prototypeUnload(imageCacheResource)
    /\ attempts' = [i \in Attempts |->
            IF attempts[i].phase \in Pending /\ imageCacheResource.state = LOADING
            THEN [attempts[i] EXCEPT !.cancelled = TRUE]
            ELSE attempts[i]]
    /\ lastOp' = [op |-> "unload", attempt |-> 0]
    /\ UNCHANGED <<decodeLog, loadCalls>>

\* the buffer view cache resource of attempt i resolves; its bytes are typedArray
BufferViewResolve(i, typedArray) ==
    /\ attempts[i].phase = "bufferView"
    /\ LET res == bufferViewThen(imageCacheResource, typedArray)
       IN  /\ imageCacheResource' = res.r
           /\ attempts' = [attempts EXCEPT ![i].phase = res.next]
           /\ decodeLog' = IF res.next = "decode" THEN Append(decodeLog, <<i, res.call>>)
                           ELSE decodeLog
    /\ lastOp' = [op |-> "bufferViewResolve", attempt |-> i]
    /\ UNCHANGED loadCalls

\* the buffer view cache resource of attempt i rejects
BufferViewReject(i, error) ==
    /\ attempts[i].phase = "bufferView"
    /\ imageCacheResource' = handleError(imageCacheResource, error, EmbeddedMessage)
    /\ attempts' = [attempts EXCEPT ![i].phase = "done"]
    /\ lastOp' = [op |-> "bufferViewReject", attempt |-> i]
    /\ UNCHANGED <<decodeLog, loadCalls>>

\* the decoder started by attempt i resolves with image
DecodeResolve(i, image) ==
    /\ attempts[i].phase = "decode"
    /\ imageCacheResource' = decodeThen(imageCacheResource, image)
    /\ attempts' = [attempts EXCEPT ![i].phase = "done"]
    /\ lastOp' = [op |-> "decodeResolve", attempt |-> i]
    /\ UNCHANGED <<decodeLog, loadCalls>>

\* the decoder started by attempt i rejects
DecodeReject(i, error) ==
    /\ attempts[i].phase = "decode"
    /\ imageCacheResource' = handleError(imageCacheResource, error, EmbeddedMessage)
    /\ attempts' = [attempts EXCEPT ![i].phase = "done"]
    /\ lastOp' = [op |-> "decodeReject", attempt |-> i]
    /\ UNCHANGED <<decodeLog, loadCalls>>

\* the fetch-and-decode started by attempt i resolves with image
FetchResolve(i, image) ==
    /\ attempts[i].phase = "fetch"
    /\ imageCacheResource' = uriThen(imageCacheResource, image)
    /\ attempts' = [attempts EXCEPT ![i].phase = "done"]
    /\ lastOp' = [op |-> "fetchResolve", attempt |-> i]
    /\ UNCHANGED <<decodeLog, loadCalls>>

\* the fetch-and-decode started by attempt i rejects (lines 234-236)
FetchReject(i, error) ==
    /\ attempts[i].phase = "fetch"
    /\ imageCacheResource' =
            handleError(imageCacheResource, error, uriMessage(attempts[i].uri))
    /\ attempts' = [attempts EXCEPT ![i].phase = "done"]
    /\ lastOp' = [op |-> "fetchReject", attempt |-> i]
    /\ UNCHANGED <<decodeLog, loadCalls>>

Next ==
    \/ Load
    \/ Unload
    \/ \E i \in Attempts, typedArray \in TypedArrays : BufferViewResolve(i, typedArray)
    \/ \E i \in Attempts, error \in Errors : BufferViewReject(i, error)
    \/ \E i \in Attempts, image \in Images : DecodeResolve(i, image)
    \/ \E i \in Attempts, error \in Errors : DecodeReject(i, error)
    \/ \E i \in Attempts, image \in Images : FetchResolve(i, image)
    \/ \E i \in Attempts, error \in Errors : FetchReject(i, error)

Spec == Init /\ [][Next]_vars

\* ------------------------------------------------------------ typing
TypeOK ==
    /\ imageCacheResource.state \in CacheResourceState
    /\ imageCacheResource.promise.status \in {"pending", "resolved", "rejected"}
    /\ imageCacheResource.image \in Images \cup {Undefined}
    /\ loadCalls \in 0..MaxLoads
    /\ \A i \in Attempts : attempts[i].phase \in Pending \cup {"none", "done"}

\* ------------------------------------------------------------ properties
SuccessOps == {"bufferViewResolve", "decodeResolve", "fetchResolve"}

FailureOps == {"bufferViewResolve", "bufferViewReject", "decodeReject", "fetchReject"}

\* resourceCache.unload calls made with the k-th acquired buffer view
released(k) == imageCacheResource.resourceCache.unloads[k]

\* the buffer views acquired so far
Acquired == 1..imageCacheResource.resourceCache.loads

\* the chain of attempt i has run to its end
Finished(i) == attempts[i].phase = "done"

\* C1 (as stated): with load() called once, once its asynchronous steps have
\* all settled, completion has settled, and exactly one resolve or reject was made.
C1_SettlesExactlyOnce ==
    (loadCalls = 1 /\ Finished(1)) =>
        /\ imageCacheResource.promise.status # "pending"
        /\ imageCacheResource.promise.calls = 1

\* C1 (amended): with load() called once, at most one resolve or reject call is
\* ever made on completion, and once the load's asynchronous steps have all
\* settled completion has settled exactly once, provided unload() was not
\* called while the entry was Loading.
C1_SettlesAtMostOnce ==
    loadCalls <= 1 =>
        /\ imageCacheResource.promise.calls <= 1
        /\ (loadCalls = 1 /\ Finished(1) /\ ~attempts[1].cancelled) =>
              /\ imageCacheResource.promise.status # "pending"
              /\ imageCacheResource.promise.calls = 1

\* a single load ran to its end, completion was rejected, and unload() came after
C1_Witness ==
    /\ loadCalls = 1
    /\ Finished(1)
    /\ ~attempts[1].cancelled
    /\ imageCacheResource.promise.status = "rejected"
    /\ lastOp.op = "unload"

\* C2: when the step of an attempt cancelled by unload() (called while
\* Loading, before the step settled) succeeds and the entry is still Unloaded,
\* the continuation discards the result: no decoder is called, image stays
\* empty, state stays Unloaded, completion is untouched and the chain ends.
\* With a single load() the entry is always still Unloaded at that point.
C2_Step ==
    (/\ lastOp'.op \in SuccessOps
     /\ attempts[lastOp'.attempt].cancelled
     /\ (imageCacheResource.state = UNLOADED \/ loadCalls = 1))
    => /\ imageCacheResource'.state = UNLOADED
       /\ imageCacheResource'.image = Undefined
       /\ imageCacheResource'.promise = imageCacheResource.promise
       /\ decodeLog' = decodeLog
       /\ attempts'[lastOp'.attempt].phase = "done"

\* C2: every step of the entry is a C2_Step (the result of a cancelled attempt
\* is discarded at each of the three suspension points).
C2_DiscardsAfterUnload == [][C2_Step]_vars

\* the decoder of a cancelled attempt resolved and nothing was published
C2_Witness ==
    /\ lastOp.op = "decodeResolve"
    /\ attempts[lastOp.attempt].cancelled
    /\ loadCalls = 1
    /\ imageCacheResource.state = UNLOADED
    /\ imageCacheResource.image = Undefined
    /\ imageCacheResource.promise.status = "pending"

\* C3 (as stated): once unload() was called while Loading, completion stays
\* unsettled, whether the in-flight step succeeds or fails.
C3_UnsettledAfterUnload ==
    (\E i \in Attempts : attempts[i].cancelled) =>
        imageCacheResource.promise.status = "pending"

\* C4: no acquired buffer view is released more than once.
C4_ReleasedAtMostOnce == \A k \in Tokens : released(k) <= 1

\* the success path released the buffer view and unload() was called after it
C4_Witness ==
    /\ lastOp.op = "unload"
    /\ imageCacheResource.promise.status = "resolved"
    /\ released(1) = 1

\* C5: in Ready, Failed and Unloaded every acquired buffer view has been
\* released exactly once and dependentBufferEntry is empty.
C5_ReleasedOnEveryExit ==
    imageCacheResource.state \in {READY, FAILED, UNLOADED} =>
        /\ \A k \in Acquired : released(k) = 1
        /\ imageCacheResource.bufferViewCacheResource = Undefined

\* an inline load failed in the decoder and its buffer view is released
C5_Witness ==
    /\ lastOp.op = "decodeReject"
    /\ imageCacheResource.state = FAILED
    /\ released(1) = 1

\* C6: the decoded image is non-empty only in Ready.
C6_ImageOnlyWhenReady ==
    imageCacheResource.state # READY => imageCacheResource.image = Undefined

\* unload() was called on a Ready entry that held an image
C6_Witness ==
    /\ lastOp.op = "unload"
    /\ imageCacheResource.promise.status = "resolved"
    /\ imageCacheResource.state = UNLOADED
    /\ imageCacheResource.image = Undefined

\* C7: dependentBufferEntry is non-empty only while Loading on the inline branch.
C7_BufferViewOnlyWhileLoading ==
    defined(imageCacheResource.bufferViewCacheResource) =>
        /\ imageCacheResource.state = LOADING
        /\ defined(imageCacheResource.bufferViewId)

\* the buffer view is still held while the decoder runs
C7_Witness ==
    /\ defined(imageCacheResource.bufferViewCacheResource)
    /\ \E i \in Attempts : attempts[i].phase = "decode"

\* C8: right after unload() the state is Unloaded and dependentBufferEntry, uri,
\* image and the document reference are empty; another unload() changes no
\* field of the entry and makes no release call.
C8_UnloadIdempotent ==
    lastOp.op = "unload" =>
        /\ imageCacheResource.state = UNLOADED
        /\ imageCacheResource.bufferViewCacheResource = Undefined
        /\ imageCacheResource.uri = Undefined
        /\ imageCacheResource.image = Undefined
        /\ imageCacheResource.gltf = Undefined
        /\ prototypeUnload(imageCacheResource) = imageCacheResource

\* unload() was called while a load from a uri was in flight
C8_Witness ==
    /\ lastOp.op = "unload"
    /\ \E i \in Attempts : attempts[i].cancelled /\ defined(attempts[i].uri)

\* C9 (as stated): the state changes only along Unloaded -load-> Loading,
\* Loading -success-> Ready, Loading -failure-> Failed, any -unload-> Unloaded.
C9_Edge ==
    imageCacheResource'.state # imageCacheResource.state =>
        \/ /\ imageCacheResource.state = UNLOADED
           /\ imageCacheResource'.state = LOADING
           /\ lastOp'.op = "load"
        \/ /\ imageCacheResource.state = LOADING
           /\ imageCacheResource'.state = READY
           /\ lastOp'.op \in SuccessOps
        \/ /\ imageCacheResource.state = LOADING
           /\ imageCacheResource'.state = FAILED
           /\ lastOp'.op \in FailureOps
        \/ /\ imageCacheResource'.state = UNLOADED
           /\ lastOp'.op = "unload"

\* C9 (as stated): every change of state is a C9_Edge.
C9_StateMachineEdges == [][C9_Edge]_vars

\* C10 (as stated): in Failed, dependentBufferEntry is empty and released,
\* image, uri and the document reference are empty and completion is rejected.
C10_FailedIsClean ==
    imageCacheResource.state = FAILED =>
        /\ imageCacheResource.bufferViewCacheResource = Undefined
        /\ \A k \in Acquired : released(k) = 1
        /\ imageCacheResource.image = Undefined
        /\ imageCacheResource.uri = Undefined
        /\ imageCacheResource.gltf = Undefined
        /\ imageCacheResource.promise.status = "rejected"

\* C10 (amended): in Failed, dependentBufferEntry is empty and every acquired
\* buffer view released, image, uri and the document reference are empty, and
\* completion is settled: rejected, unless an earlier load of the same entry
\* had already resolved it (completion is one-shot and is not renewed by a
\* later load()); with a single load() it is always rejected.
C10_FailedIsCleanAndSettled ==
    imageCacheResource.state = FAILED =>
        /\ imageCacheResource.bufferViewCacheResource = Undefined
        /\ \A k \in Acquired : released(k) = 1
        /\ imageCacheResource.image = Undefined
        /\ imageCacheResource.uri = Undefined
        /\ imageCacheResource.gltf = Undefined
        /\ imageCacheResource.promise.status # "pending"
        /\ loadCalls <= 1 => imageCacheResource.promise.status = "rejected"

\* the buffer view of an inline load rejected: Failed, released, rejected
C10_Witness ==
    /\ lastOp.op = "bufferViewReject"
    /\ imageCacheResource.state = FAILED
    /\ released(1) = 1
    /\ imageCacheResource.promise.status = "rejected"

\* C11: as long as load() has not been called, whatever number of unload()
\* calls was made, the state is Unloaded, no resolve or reject was made on
\* completion, and no buffer view was acquired or released.
C11_UnloadBeforeLoad ==
    loadCalls = 0 =>
        /\ imageCacheResource.state = UNLOADED
        /\ imageCacheResource.promise = defer
        /\ imageCacheResource.resourceCache = NewResourceCache

\* unload() was called on an entry that was never loaded
C11_Witness ==
    /\ loadCalls = 0
    /\ lastOp.op = "unload"
    /\ imageCacheResource.uri = Undefined

\* ------------------------------------------------------------ fairness
\* Every pending collaborator promise eventually settles (resolves or
\* rejects), and its continuation then runs.
CollaboratorsSettle ==
    /\ WF_vars(\E i \in Attempts :
            \/ \E typedArray \in TypedArrays : BufferViewResolve(i, typedArray)
            \/ \E error \in Errors : BufferViewReject(i, error))
    /\ WF_vars(\E i \in Attempts :
            \/ \E image \in Images : DecodeResolve(i, image)
            \/ \E error \in Errors : DecodeReject(i, error))
    /\ WF_vars(\E i \in Attempts :
            \/ \E image \in Images : FetchResolve(i, image)
            \/ \E error \in Errors : FetchReject(i, error))

FairSpec == Spec /\ CollaboratorsSettle

\* the buffer view of attempt i was released once and is no longer referenced
ReleasedIfInline(i) ==
    defined(attempts[i].bufferViewCacheResource) =>
        /\ released(attempts[i].bufferViewCacheResource[1]) = 1
        /\ imageCacheResource.bufferViewCacheResource = Undefined

\* the decoder of the only load resolves with image while the entry is Loading:
\* the entry is Ready with exactly that image, completion is resolved with the
\* entry and the buffer view is released
C12_Step ==
    \A i \in Attempts, image \in Images :
        (/\ loadCalls = 1
         /\ imageCacheResource.state = LOADING
         /\ (DecodeResolve(i, image) \/ FetchResolve(i, image)))
        => /\ imageCacheResource'.state = READY
           /\ imageCacheResource'.image = image
           /\ imageCacheResource'.promise =
                  [status |-> "resolved", value |-> Self, calls |-> 1]
           /\ ReleasedIfInline(i)'

\* load() is called once, unload() never, no collaborator rejects and the
\* bytes of the buffer view are recognised (the sniffing did not fail the entry)
C12_Hyp ==
    /\ loadCalls <= 1
    /\ lastOp.op \in {"new", "load"} \cup SuccessOps
    /\ imageCacheResource.state # FAILED

C12_Goal ==
    /\ imageCacheResource.state = READY
    /\ imageCacheResource.image \in Images
    /\ imageCacheResource.promise = [status |-> "resolved", value |-> Self, calls |-> 1]
    /\ ReleasedIfInline(1)

\* C12: with load() called once, unload() never called and every collaborator
\* succeeding, the entry eventually is Ready with the image the decoder
\* returned, completion resolved with the entry and the buffer view released.
C12_SuccessPath ==
    /\ [][C12_Step]_vars
    /\ ([]C12_Hyp => ((loadCalls = 1) ~> C12_Goal))

\* an inline load ran to Ready
C12_Witness ==
    /\ lastOp.op = "decodeResolve"
    /\ loadCalls = 1
    /\ ~attempts[1].cancelled
    /\ C12_Goal

\* a collaborator of the only load rejects while the entry is Loading: the
\* entry is Failed and completion is rejected, on the uri branch with the
\* message that carries the uri the entry still stores before the cleanup, on
\* the inline branch with the embedded-image message
C13_Step ==
    \A i \in Attempts, error \in Errors :
        /\ (/\ loadCalls = 1
            /\ imageCacheResource.state = LOADING
            /\ FetchReject(i, error))
           => /\ imageCacheResource'.state = FAILED
              /\ imageCacheResource'.uri = Undefined
              /\ imageCacheResource'.promise =
                     [status |-> "rejected",
                      value |-> getError(error, <<"Failed to load image:", imageCacheResource.uri>>),
                      calls |-> 1]
        /\ (/\ loadCalls = 1
            /\ imageCacheResource.state = LOADING
            /\ (BufferViewReject(i, error) \/ DecodeReject(i, error)))
           => /\ imageCacheResource'.state = FAILED
              /\ imageCacheResource'.promise =
                     [status |-> "rejected",
                      value |-> getError(error, EmbeddedMessage),
                      calls |-> 1]

\* load() is called once, unload() never, and no decoder or fetch resolves
C13_Hyp ==
    /\ loadCalls <= 1
    /\ lastOp.op \in {"new", "load", "bufferViewResolve"} \cup FailureOps

C13_Goal ==
    /\ imageCacheResource.state = FAILED
    /\ imageCacheResource.promise.status = "rejected"
    /\ imageCacheResource.promise.calls = 1
    /\ IF defined(imageCacheResource.bufferViewId)
       THEN imageCacheResource.promise.value[2] = EmbeddedMessage
       ELSE imageCacheResource.promise.value[2] = uriMessage(attempts[1].uri)

\* C13: with load() called once, unload() never called and the collaborator
\* rejecting, the entry eventually is Failed and completion is rejected: on the
\* uri branch with a message that contains the uri as it was at load time, on
\* the inline branch with the "Failed to load embedded image" message.
C13_FailurePath ==
    /\ [][C13_Step]_vars
    /\ ([]C13_Hyp => ((loadCalls = 1) ~> C13_Goal))

\* a uri load failed: the message carries the uri, the stored uri is cleared
C13_Witness ==
    /\ lastOp.op = "fetchReject"
    /\ loadCalls = 1
    /\ ~attempts[1].cancelled
    /\ imageCacheResource.uri = Undefined
    /\ imageCacheResource.promise.value[2] = <<"Failed to load image:", PngUri>>
    /\ C13_Goal

\* ------------------------------------------------------------ construction
\* the entries of extras.compressedImage3DTiles, in the order the constructor
\* tries them (lines 80-104)
VariantOrder == <<"crunch", "s3tc", "pvrtc1", "etc1">>

CrunchUri == <<"c", ".", "c", "r", "n">>

S3tcUri == <<"s", ".", "k", "t", "x">>

PvrtcUri == <<"p", ".", "k", "t", "x">>

Etc1Uri == <<"e", ".", "k", "t", "x">>

VariantUris == <<CrunchUri, S3tcUri, PvrtcUri, Etc1Uri>>

\* the k-th variant: absent, or with a bufferView, a uri or both
VariantChoices(k) ==
    {Undefined} \cup
    ({ [bufferView |-> b, uri |-> u] :
         b \in {Undefined, <<"bufferView", k>>}, u \in {Undefined, VariantUris[k]} }
     \ {[bufferView |-> Undefined, uri |-> Undefined]})

ExtrasChoices ==
    {Undefined} \cup
    { [crunch |-> c, s3tc |-> s, pvrtc1 |-> p, etc1 |-> e] :
        c \in VariantChoices(1), s \in VariantChoices(2),
        p \in VariantChoices(3), e \in VariantChoices(4) }

\* image records with compressed variants
VariantImageRecords ==
    { [bufferView |-> b, uri |-> u, extras |-> x] :
        b \in BufferViewIds \cup {Undefined}, u \in {PngUri, Undefined}, x \in ExtrasChoices }

\* options.supportedImageFormats
SupportedFormats ==
    { [webp |-> FALSE, s3tc |-> a, pvrtc |-> b, etc1 |-> c] : a, b, c \in BOOLEAN }

\* the entry right after new GltfImageCacheResource(options); the call is
\* recorded with its options
ConstructInit ==
    /\ \E image \in VariantImageRecords, supported \in SupportedFormats :
          /\ imageCacheResource = GltfImageCacheResource(image, supported)
          /\ lastOp = [op |-> "new", attempt |-> 0, image |-> image, supported |-> supported]
    /\ attempts = [i \in Attempts |-> NoAttempt]
    /\ decodeLog = <<>>
    /\ loadCalls = 0

\* construction followed by load()
ConstructSpec == ConstructInit /\ [][Load]_vars

\* the k-th variant of an image record (Undefined without extras)
variantOf(image, k) ==
    IF defined(image.extras) THEN image.extras[VariantOrder[k]] ELSE Undefined

\* the capability flag the constructor asks for the k-th variant: crunch and
\* s3tc both go by supportsS3tc (lines 80, 86, 92, 98)
flagOf(supported, k) ==
    IF VariantOrder[k] \in {"crunch", "s3tc"} THEN supported.s3tc
    ELSE IF VariantOrder[k] = "pvrtc1" THEN supported.pvrtc
    ELSE supported.etc1

\* the variants that are present and supported
Eligible(image, supported) ==
    {k \in DOMAIN VariantOrder : defined(variantOf(image, k)) /\ flagOf(supported, k)}

FirstEligible(image, supported) ==
    CHOOSE k \in Eligible(image, supported) : \A j \in Eligible(image, supported) : k <= j

\* the field a variant overrides carries the variant's value
BoundTo(variant) ==
    IF defined(variant.bufferView)
    THEN imageCacheResource.bufferViewId = variant.bufferView
    ELSE imageCacheResource.uri = variant.uri

AllFourPresent(image) == \A k \in DOMAIN VariantOrder : defined(variantOf(image, k))

\* C14 (as stated): with all four variants present and support reported for
\* s3tc and pvrtc but not etc1, the entry is bound to the source of s3tc.
C14_SecondVariantSelected ==
    (/\ lastOp.op = "new"
     /\ AllFourPresent(lastOp.image)
     /\ lastOp.supported.s3tc /\ lastOp.supported.pvrtc /\ ~lastOp.supported.etc1)
    => BoundTo(lastOp.image.extras.s3tc)

\* C14 (amended): crunch is gated by the s3tc flag; the entry is bound to the
\* source of the first variant in the order crunch, s3tc, pvrtc1, etc1 that is
\* present and whose flag (s3tc, s3tc, pvrtc, etc1) is set, and to the base
\* record's bufferView and uri when there is none. With all four present and
\* s3tc and pvrtc supported that is crunch.
C14_FirstSupportedVariant ==
    lastOp.op = "new" =>
        LET image == lastOp.image
            supported == lastOp.supported
        IN  /\ IF Eligible(image, supported) = {}
               THEN /\ imageCacheResource.bufferViewId = image.bufferView
                    /\ imageCacheResource.uri = image.uri
               ELSE BoundTo(variantOf(image, FirstEligible(image, supported)))
            /\ (AllFourPresent(image) /\ supported.s3tc) => BoundTo(image.extras.crunch)

\* all four variants present, s3tc and pvrtc supported: bound to crunch's bufferView
C14_Witness ==
    /\ lastOp.op = "new"
    /\ AllFourPresent(lastOp.image)
    /\ lastOp.supported.s3tc /\ lastOp.supported.pvrtc /\ ~lastOp.supported.etc1
    /\ imageCacheResource.bufferViewId = <<"bufferView", 1>>

\* ------------------------------------------------------------ sniffing inputs
\* the bytes that occur in the headers, and one that does not
HeaderBytes == {66, 71, 255, 137, 171, 72, 115, 73, 216, 80, 75, 120, 82, 0}

Riff == <<82, 73, 70, 70>>

Webp == <<87, 69, 66, 80>>

\* buffer view contents: every sequence of at most two header bytes, the
\* contents of TypedArrays, and near misses of the WebP header
SniffArrays ==
    {<<>>} \cup { <<a>> : a \in HeaderBytes } \cup { <<a, b>> : a, b \in HeaderBytes }
    \cup TypedArrays
    \cup { Riff \o <<1, 2, 3, 4>> \o Webp,
           Riff \o <<1, 2, 3, 4>> \o Webp \o <<86, 80, 56>>,
           Riff \o <<1, 2, 3, 4>> \o <<87, 65, 86, 69>>,
           Riff \o <<1, 2, 3, 4>> \o <<87, 69, 66>>,
           <<82, 73, 70, 88>> \o <<1, 2, 3, 4>> \o Webp,
           Riff \o Webp,
           <<66, 73, 0, 0, 0, 0, 0, 0, 0, 0, 0, 0>>,
           <<73, 66, 77>>,
           <<255, 216, 255, 224>>,
           <<71, 73, 70, 56>>,
           <<115, 66, 19, 0>> }

\* the buffer view of an inline load resolves with any of SniffArrays and the
\* decoder it starts resolves
SniffNext ==
    \/ Load
    \/ \E i \in Attempts, typedArray \in SniffArrays : BufferViewResolve(i, typedArray)
    \/ \E i \in Attempts, image \in Images : DecodeResolve(i, image)

SniffSpec == Init /\ [][SniffNext]_vars

\* the documented header table: first two bytes -> type
HeaderTable ==
    { <<<<66, 73>>, "image/bmp">>, <<<<71, 73>>, "image/gif">>,
      <<<<255, 216>>, "image/jpeg">>, <<<<137, 80>>, "image/png">>,
      <<<<171, 75>>, "image/ktx">>, <<<<72, 120>>, "image/crn">>,
      <<<<115, 66>>, "image/basis">> }

\* the type the table gives for a byte sequence, or Throw
SniffedType(bytes) ==
    IF Len(bytes) >= 2 /\ \E e \in HeaderTable : e[1] = SubSeq(bytes, 1, 2)
    THEN (CHOOSE e \in HeaderTable : e[1] = SubSeq(bytes, 1, 2))[2]
    ELSE IF Len(bytes) >= 12 /\ SubSeq(bytes, 1, 4) = Riff /\ SubSeq(bytes, 9, 12) = Webp
    THEN "image/webp"
    ELSE Throw

\* the decoder the type routes to
RouteOf(type, bytes) ==
    IF type = "image/ktx" THEN decoderCall("loadKTX", bytes, Undefined, Undefined)
    ELSE IF type = "image/crn" THEN decoderCall("loadCRN", bytes, Undefined, Undefined)
    ELSE decoderCall("loadImageFromTypedArray", bytes, <<type>>, <<FALSE>>)

\* the buffer view resolves with typedArray while the entry is not Unloaded:
\* a recognised header starts exactly the decoder of its type and leaves the
\* entry as it is; any other sequence fails the entry and rejects completion
\* with the embedded-image message, and starts no decoder
C15_Step ==
    \A i \in Attempts, typedArray \in SniffArrays :
        (BufferViewResolve(i, typedArray) /\ imageCacheResource.state # UNLOADED) =>
            IF SniffedType(typedArray) = Throw
            THEN /\ imageCacheResource'.state = FAILED
                 /\ imageCacheResource'.promise.status = "rejected"
                 /\ imageCacheResource'.promise =
                        reject(imageCacheResource.promise, getError(HeaderError, EmbeddedMessage))
                 /\ decodeLog' = decodeLog
                 /\ attempts'[i].phase = "done"
            ELSE /\ decodeLog' =
                        Append(decodeLog, <<i, RouteOf(SniffedType(typedArray), typedArray)>>)
                 /\ imageCacheResource' = imageCacheResource
                 /\ attempts'[i].phase = "decode"

\* C15: the first two bytes select BMP, GIF, JPEG, PNG, KTX, CRN or Basis,
\* else "RIFF" at 0..3 with "WEBP" at 8..11 selects WebP, and every other
\* sequence (also one shorter than the header) ends in Failed with completion
\* rejected; KTX and CRN go to their decoders, every other recognised type to
\* the raster decoder with its type tag and flipY false.
C15_SniffingAndRouting ==
    /\ [][C15_Step]_vars
    /\ [](\A typedArray \in SniffArrays :
            getMimeTypeFromTypedArray(typedArray) = SniffedType(typedArray))

\* an unrecognised buffer view failed the entry; the error went to completion
C15_Witness ==
    /\ lastOp.op = "bufferViewResolve"
    /\ imageCacheResource.state = FAILED
    /\ imageCacheResource.promise.status = "rejected"
    /\ imageCacheResource.promise.value = getError(HeaderError, EmbeddedMessage)
    /\ decodeLog = <<>>

\* ------------------------------------------------------------ uri dispatch inputs
\* the documented dispatch, spelled out: uri -> decoder
DispatchTable ==
    { <<<<"a", ".", "k", "t", "x">>, "loadKTX">>,
      <<<<"a", ".", "K", "t", "x">>, "loadKTX">>,
      <<<<"b", ".", "K", "T", "X">>, "loadKTX">>,
      <<<<"d", "a", "t", "a", ":", "i", "m", "a", "g", "e", "/", "k", "t", "x", ";", "x">>, "loadKTX">>,
      <<<<"D", "A", "T", "A", ":", "i", "m", "a", "g", "e", "/", "K", "T", "X", ";", "x">>, "loadKTX">>,
      <<<<"a", ".", "c", "r", "n">>, "loadCRN">>,
      <<<<"b", ".", "C", "R", "N">>, "loadCRN">>,
      <<<<"d", "a", "t", "a", ":", "i", "m", "a", "g", "e", "/", "c", "r", "n", ";", "x">>, "loadCRN">>,
      <<<<"D", "a", "t", "a", ":", "I", "m", "a", "g", "e", "/", "C", "r", "n">>, "loadCRN">>,
      <<<<"d", "a", "t", "a", ":", "i", "m", "a", "g", "e", "/", "c", "r", "n", ";", ".", "k", "t", "x">>, "loadKTX">>,
      <<<<"d", "a", "t", "a", ":", "i", "m", "a", "g", "e", "/", "k", "t", "x", ";", ".", "c", "r", "n">>, "loadKTX">>,
      <<<<"a", ".", "c", "r", "n", ".", "k", "t", "x">>, "loadKTX">>,
      <<<<"a", ".", "k", "t", "x", ".", "c", "r", "n">>, "loadCRN">>,
      <<<<"a", ".", "p", "n", "g">>, "fetchImage">>,
      <<<<"a", ".", "k", "t", "x", ".", "p", "n", "g">>, "fetchImage">>,
      <<<<"a", "k", "t", "x">>, "fetchImage">>,
      <<<<"a", "c", "r", "n">>, "fetchImage">>,
      <<<<"d", "a", "t", "a", ":", "i", "m", "a", "g", "e", "/", "p", "n", "g", ";", "x">>, "fetchImage">>,
      <<<<"x", "d", "a", "t", "a", ":", "i", "m", "a", "g", "e", "/", "k", "t", "x">>, "fetchImage">>,
      <<<<"k", "t", "x", "/", "a", ".", "j", "p", "g">>, "fetchImage">>,
      <<<<".", "k", "t">>, "fetchImage">> }

DispatchUris == { e[1] : e \in DispatchTable }

\* an entry constructed for an image record that has a uri and no bufferView
DispatchInit ==
    /\ \E uri \in DispatchUris :
          imageCacheResource =
              GltfImageCacheResource([bufferView |-> Undefined, uri |-> uri,
                                      extras |-> Undefined], NoFormats)
    /\ attempts = [i \in Attempts |-> NoAttempt]
    /\ decodeLog = <<>>
    /\ loadCalls = 0
    /\ lastOp = [op |-> "new", attempt |-> 0]

DispatchNext ==
    \/ Load
    \/ Unload
    \/ \E i \in Attempts, image \in Images : FetchResolve(i, image)
    \/ \E i \in Attempts, error \in Errors : FetchReject(i, error)

DispatchSpec == DispatchInit /\ [][DispatchNext]_vars

DecoderOf(uri) == (CHOOSE e \in DispatchTable : e[1] = uri)[2]

\* load() of a uri entry calls exactly the decoder the table gives for its
\* uri, on the resource derived from that uri, and nothing but load() calls a
\* decoder
C16_Step ==
    /\ Load =>
          /\ Len(decodeLog') = Len(decodeLog) + 1
          /\ defined(imageCacheResource.uri) =>
                decodeLog' = Append(decodeLog,
                    <<loadCalls + 1,
                      decoderCall(DecoderOf(imageCacheResource.uri),
                                  getDerivedResource(imageCacheResource.uri),
                                  Undefined, Undefined)>>)
    /\ ~Load => decodeLog' = decodeLog

\* C16: on the uri branch a locator starting with "data:image/ktx" or ending
\* with ".ktx" (any case) goes to the KTX decoder, otherwise one starting with
\* "data:image/crn" or ending with ".crn" to the CRN decoder, any other to the
\* generic fetch; the KTX test comes first, and each load() calls exactly one
\* decoder.
C16_UriDispatch == [][C16_Step]_vars

\* a uri matching both patterns was loaded and went to the KTX decoder
C16_Witness ==
    /\ lastOp.op = "load"
    /\ decodeLog = <<<<1, decoderCall("loadKTX", <<"d", "a", "t", "a", ":", "i", "m", "a", "g", "e", "/", "c", "r", "n", ";", ".", "k", "t", "x">>, Undefined, Undefined)>>>>

\* ------------------------------------------------------------ variant source
\* the first load() of an entry constructed with a selected variant reads the
\* variant's bufferView if it has one and else fetches the variant's uri
C17_Step ==
    (/\ Load
     /\ lastOp.op = "new"
     /\ Eligible(lastOp.image, lastOp.supported) # {})
    => LET variant == variantOf(lastOp.image, FirstEligible(lastOp.image, lastOp.supported))
       IN  IF defined(variant.bufferView)
           THEN /\ imageCacheResource.bufferViewId = variant.bufferView
                /\ attempts'[1].phase = "bufferView"
                /\ decodeLog' = decodeLog
           ELSE /\ attempts'[1].phase = "fetch"
                /\ attempts'[1].uri = variant.uri
                /\ decodeLog' =
                      <<<<1, loadImageFromUri(getDerivedResource(variant.uri))>>>>

\* C17: the selected variant's source overrides the base record's source for
\* the load, for every base record, also one that has its own bufferView
\* while the selected variant carries only a uri.
C17_VariantSourceOverridesBase == [][C17_Step]_vars

\* ------------------------------------------------------------ one source
\* load() sets LOADING and takes exactly one source: with a bufferViewId one
\* loadBufferView call for that id with keepResident false and no fetch,
\* without one a single fetch and no loadBufferView call
C18_Step ==
    Load =>
        LET r == imageCacheResource
            cache == r.resourceCache
            cache2 == imageCacheResource'.resourceCache
        IN  /\ imageCacheResource'.state = LOADING
            /\ IF defined(r.bufferViewId)
               THEN /\ cache2.loads = cache.loads + 1
                    /\ Len(cache2.requests) = Len(cache.requests) + 1
                    /\ cache2.requests[Len(cache2.requests)].bufferViewId = r.bufferViewId
                    /\ cache2.requests[Len(cache2.requests)].keepResident = FALSE
                    /\ decodeLog' = decodeLog
                    /\ attempts'[loadCalls'].phase = "bufferView"
               ELSE /\ cache2.loads = cache.loads
                    /\ cache2.requests = cache.requests
                    /\ Len(decodeLog') = Len(decodeLog) + 1
                    /\ decodeLog'[Len(decodeLog')][2].decoder \in
                           {"loadKTX", "loadCRN", "fetchImage"}
                    /\ attempts'[loadCalls'].phase = "fetch"

\* a continuation of attempt i is pending only after the load() that
\* started it, and no step but load() acquires a buffer view
C18_Started ==
    /\ \A i \in Attempts : attempts[i].phase \in Pending => i <= loadCalls
    /\ ~Load => imageCacheResource'.resourceCache.loads = imageCacheResource.resourceCache.loads

\* C18: each load() either acquires one buffer view (exactly when
\* bufferViewId is defined, with keepResident false) or starts one fetch,
\* never both or neither, and the state is LOADING before a continuation runs.
C18_ExactlyOneSource == [][C18_Step /\ C18_Started]_vars

\* both loads of an inline entry acquired the buffer view, no fetch was made
C18_Witness ==
    /\ lastOp.op = "load"
    /\ loadCalls = 2
    /\ imageCacheResource.state = LOADING
    /\ imageCacheResource.resourceCache.loads = 2
    /\ \A k \in 1..2 : ~imageCacheResource.resourceCache.requests[k].keepResident
    /\ \A k \in DOMAIN decodeLog : decodeLog[k][2].decoder \notin {"fetchImage"}

\* ------------------------------------------------------------ stale attempt
\* attempt i was cancelled by unload() and load() was called again; the
\* success continuation of attempt i that would publish now runs
StaleSuccess(i) ==
    /\ attempts[i].cancelled
    /\ loadCalls > i
    /\ \/ \E image \in Images : DecodeResolve(i, image)
       \/ \E image \in Images : FetchResolve(i, image)

\* C19: a load attempt cancelled by unload() never publishes, also when
\* load() was called again before its continuation resumes: the continuation
\* does not set image, does not set the state to READY, does not resolve
\* completion and does not release the buffer view the later load() acquired.
C19_Step ==
    \A i \in Attempts :
        StaleSuccess(i) =>
            /\ imageCacheResource'.image = imageCacheResource.image
            /\ imageCacheResource'.state = imageCacheResource.state
            /\ imageCacheResource'.promise = imageCacheResource.promise
            /\ \A k \in Tokens : k > i =>
                  imageCacheResource'.resourceCache.unloads[k] =
                      imageCacheResource.resourceCache.unloads[k]

C19_CancelledNeverPublishes == [][C19_Step]_vars

====
